---- MODULE Spec2Model ----
(***************************************************************************)
(* Model of the scroll spy store of svelte-scrollspy                       *)
(* (src/src/lib/index.ts, createScrollSpy).                                *)
(*                                                                         *)
(* The store keeps two insertion-ordered JavaScript Sets (targets,         *)
(* activeTargets) and the pointer lastActiveTarget.  They are changed by   *)
(* spy, unspy, unspyAll, by the destroy handle spy returns, and by the     *)
(* IntersectionObserver callback, which applies the entries of a batch one *)
(* by one and notifies the subscribers after each entry.  Subscribers run  *)
(* synchronously inside the notification and may call the store again, so  *)
(* store calls can happen between two entries of one batch.                *)
(***************************************************************************)
EXTENDS Integers, Sequences, FiniteSets, TLC

VARIABLES
    hasIO,             \* typeof IntersectionObserver !== "undefined" at creation
    targets,           \* Set<Element> targets, in insertion order
    activeTargets,     \* Set<Element> activeTargets, in insertion order
    lastActiveTarget,  \* Element | null
    observed,          \* observation targets of the observer, in observe order
    queue,             \* entries the observer has queued, not yet delivered
    batch,             \* entries of the running callback not yet applied
    handle,            \* the destroy handle a caller kept, or NoHandle
    registered,        \* elements whose spy returned a handle, less removals
    call,              \* the most recent call or applied entry and its outcome
    seen,              \* what the subscriber read at the latest notification
    labels,            \* the data-section-label attribute of each element
    labelIn,           \* an element id and a label argument of sectionSpy.spy
    labelOut           \* the label computed for labelIn, or NoLabel

vars == <<hasIO, targets, activeTargets, lastActiveTarget, observed,
          queue, batch, handle, registered, call, seen, labels, labelIn,
          labelOut>>

\* the state of the section spy example outside the store
section == <<labels, labelIn, labelOut>>

----------------------------------------------------------------------------
(* Bounds and the document                                                 *)

MaxQueue == 2

Null == "null"

Elems == {"e1", "e2", "e3"}

\* Strings passed as targets: "sec" is carried by two elements, "zz" by none.
Ids == {"sec", "zz"}

\* Element.id; e3 has no id attribute.
IdOf(e) == CASE e = "e1" -> "sec"
             [] e = "e2" -> "sec"
             [] OTHER    -> ""

\* document.getElementById: the first element in document order with the id.
getElementById(id) == IF id = "sec" THEN "e1" ELSE Null

\* The caller keeps the handle of the first successful spy of Kept; every
\* other handle is dropped (calling it is the same as calling unspy).
Kept == "e1"

\* Element.id as characters
IdChars(e) == IF IdOf(e) = "sec" THEN <<"s", "e", "c">> ELSE <<>>

\* the longest id the label derivation is run on
MaxIdLen == 5

IdAlphabet == {"a", "b", "-"}

\* the non-empty ids of at most MaxIdLen characters
BoundedIds ==
    UNION {[1..n -> IdAlphabet] : n \in 1..MaxIdLen}

\* no data-section-label attribute
NoLabel == <<Null>>

\* the label argument left out
Undefined == <<"undefined">>

\* the label arguments of sectionSpy.spy: none, or an explicit label
LabelArgs == {Undefined, <<"L">>}

\* no destroy handle kept
NoHandle == [elem |-> Null, invoked |-> FALSE]

----------------------------------------------------------------------------
(* JavaScript Set operations on an insertion-ordered sequence              *)

Range(s) == {s[i] : i \in 1..Len(s)}

SetHas(s, x) == x \in Range(s)

SetAdd(s, x) == IF SetHas(s, x) THEN s ELSE Append(s, x)

SetDelete(s, x) == SelectSeq(s, LAMBDA y : y # x)

IsElement(target) == target \in Elems

----------------------------------------------------------------------------
(* Helpers of createScrollSpy                                              *)

\* Variant: activeTargets.add(target) without the delete before it.
setTargetActiveNoDelete(act, target) == SetAdd(act, target)

\* setTargetActive: activeTargets.delete(target); activeTargets.add(target)
setTargetActive(act, target) == SetAdd(SetDelete(act, target), target)

\* setTargetUnactive: activeTargets.delete(target)
setTargetUnactive(act, target) == SetDelete(act, target)

\* Variant: lastActiveTarget = null without the comparison.
clearLastActiveAlways(last, elem) == Null

\* if (lastActiveTarget === elem) lastActiveTarget = null
clearLastActive(last, elem) == IF last = elem THEN Null ELSE last

\* isActive: true / false / null
isActive(target) ==
    IF SetHas(activeTargets, target) THEN "true"
    ELSE IF ~SetHas(targets, target) THEN "null"
    ELSE "false"

\* Variant: the first element of activeTargets instead of the last.
activeTargetFirst ==
    IF activeTargets = <<>> THEN Null ELSE activeTargets[1]

\* get activeTarget(): [...activeTargets].at(-1) ?? null
activeTarget ==
    IF activeTargets = <<>> THEN Null ELSE activeTargets[Len(activeTargets)]

\* get activeId(): this.activeTarget?.id ?? null
activeId ==
    IF activeTarget = Null THEN Null ELSE IdOf(activeTarget)

\* get lastActiveId(): lastActiveTarget?.id ?? null
lastActiveId ==
    IF lastActiveTarget = Null THEN Null ELSE IdOf(lastActiveTarget)

\* target instanceof Element ? target : document.getElementById(target)
Resolve(target) ==
    IF IsElement(target) THEN target ELSE getElementById(target)

\* Variant: spy without the targets.has(elem) guard.
spyElemNoHasGuard(ts, target) == Resolve(target)

\* the guards of spy: the resolved element, or Null when spy returns {}
spyElem(ts, target) ==
    LET elem == Resolve(target)
    IN  IF elem = Null THEN Null
        ELSE IF SetHas(ts, elem) THEN Null
        ELSE elem

\* the elements unspy works on: the target itself, or the targets with the id
unspyElems(ts, target) ==
    IF IsElement(target) THEN <<target>>
    ELSE SelectSeq(ts, LAMBDA t : IdOf(t) = target)

\* the for loop of unspy over elems, on the store state st
RECURSIVE unspyLoop(_, _)
unspyLoop(elems, st) ==
    IF elems = <<>> THEN st
    ELSE LET elem == Head(elems)
         IN  unspyLoop(Tail(elems),
                 [obs  |-> SetDelete(st.obs, elem),
                  act  |-> setTargetUnactive(st.act, elem),
                  last |-> clearLastActive(st.last, elem),
                  ts   |-> SetDelete(st.ts, elem)])

\* the outcome of a call: what it returned ("handle", "empty", "void") or
\* that it threw, the number of reportUpdates() it made and the number of
\* elements it took out of targets
Call(op, vis, ret, notes, removed) ==
    [op |-> op, vis |-> vis, ret |-> ret, notes |-> notes,
     removed |-> removed]

\* String.toUpperCase on one character
Upper(c) == CASE c = "a" -> "A"
              [] c = "b" -> "B"
              [] c = "s" -> "S"
              [] c = "e" -> "E"
              [] c = "c" -> "C"
              [] OTHER   -> c

\* Variant: the regular expression without the g flag, only the first
\* hyphen pair is replaced.
RECURSIVE replaceFirstHyphenPair(_)
replaceFirstHyphenPair(id) ==
    IF Len(id) < 2 THEN id
    ELSE IF id[1] = "-"
    THEN <<" ", Upper(id[2])>> \o SubSeq(id, 3, Len(id))
    ELSE <<id[1]>> \o replaceFirstHyphenPair(Tail(id))

\* .replace(/-./g, (m) => " " + m[1].toUpperCase()): left to right, every
\* hyphen followed by a character, the two consumed together
RECURSIVE replaceHyphenPairs(_)
replaceHyphenPairs(id) ==
    IF Len(id) < 2 THEN id
    ELSE IF id[1] = "-"
    THEN <<" ", Upper(id[2])>> \o replaceHyphenPairs(SubSeq(id, 3, Len(id)))
    ELSE <<id[1]>> \o replaceHyphenPairs(Tail(id))

\* .replace(/^(.)/, (m) => m.toUpperCase())
capitaliseFirst(id) ==
    IF id = <<>> THEN id ELSE <<Upper(id[1])>> \o Tail(id)

\* label ??= elem.id.replace(...).replace(...)
labelFor(id, label) ==
    IF label = Undefined THEN capitaliseFirst(replaceHyphenPairs(id))
    ELSE label

\* Variant: setAttribute without the `if (destroy)` guard.
stampAlways(ret, old, new) == new

\* if (destroy) elem.setAttribute("data-section-label", label)
stampAfter(ret, old, new) == IF ret = "handle" THEN new ELSE old

\* What a subscriber reads through the object the store passes to it.  The
\* store holds one object whose properties are getters over the live sets,
\* and update((state) => state) passes that same object every time.
snapshot ==
    [amount |-> Len(targets),
     targets |-> targets,
     activeTargets |-> activeTargets,
     lastActiveTarget |-> lastActiveTarget]

----------------------------------------------------------------------------
(* Initial state: a fresh store, with or without IntersectionObserver      *)

StoreInit ==
    /\ hasIO \in BOOLEAN
    /\ targets = <<>>
    /\ activeTargets = <<>>
    /\ lastActiveTarget = Null
    /\ observed = <<>>
    /\ queue = <<>>
    /\ batch = <<>>
    /\ handle = NoHandle
    /\ registered = <<>>
    /\ call = Call("create", FALSE, "void", 0, 0)
    /\ seen = snapshot
    /\ labels = [e \in Elems |-> NoLabel]
    /\ labelOut = NoLabel

Init ==
    /\ StoreInit
    /\ labelIn = [id |-> <<>>, label |-> Undefined]

\* a fresh section spy about to label an element with some id
InitLabel ==
    /\ StoreInit
    /\ labelIn \in [id : BoundedIds, label : LabelArgs]

----------------------------------------------------------------------------
(* Store calls                                                             *)

\* spy(target).  Without IntersectionObserver, `observer` was never
\* initialised: targets.add has run when observer.observe throws.
spyBody(target) ==
    LET elem == spyElem(targets, target) IN
    IF elem = Null
    THEN /\ call' = Call("spy", FALSE, "empty", 0, 0)
         /\ UNCHANGED <<hasIO, targets, activeTargets, lastActiveTarget,
                        observed, queue, batch, handle, registered, seen>>
    ELSE IF ~hasIO
    THEN /\ targets' = SetAdd(targets, elem)
         /\ call' = Call("spy", FALSE, "throw", 0, 0)
         /\ UNCHANGED <<hasIO, activeTargets, lastActiveTarget, observed,
                        queue, batch, handle, registered, seen>>
    ELSE /\ targets' = SetAdd(targets, elem)
         /\ observed' = SetAdd(observed, elem)
         /\ handle' = IF (elem = Kept) /\ (handle = NoHandle)
                      THEN [elem |-> elem, invoked |-> FALSE]
                      ELSE handle
         /\ registered' = Append(registered, elem)
         /\ call' = Call("spy", FALSE, "handle", 1, 0)
         /\ UNCHANGED <<hasIO, activeTargets, lastActiveTarget, queue, batch>>
         /\ seen' = snapshot'

\* spy called on the store itself
Spy(target) ==
    /\ spyBody(target)
    /\ UNCHANGED section

\* the body of unspy(target), shared by unspy and the destroy handle
unspyBody(op, target) ==
    LET elems == unspyElems(targets, target)
        st == unspyLoop(elems, [obs |-> observed, act |-> activeTargets,
                                last |-> lastActiveTarget, ts |-> targets])
    IN
    IF elems = <<>>
    THEN /\ call' = Call(op, FALSE, "void", 0, 0)
         /\ UNCHANGED <<targets, activeTargets, lastActiveTarget, observed,
                        registered, seen>>
    ELSE IF ~hasIO
    THEN /\ call' = Call(op, FALSE, "throw", 0, 0)
         /\ UNCHANGED <<targets, activeTargets, lastActiveTarget, observed,
                        registered, seen>>
    ELSE /\ observed' = st.obs
         /\ activeTargets' = st.act
         /\ lastActiveTarget' = st.last
         /\ targets' = st.ts
         /\ registered' = SelectSeq(registered,
                                   LAMBDA t : t \notin Range(elems))
         /\ call' = Call(op, FALSE, "void", 1, Len(targets) - Len(st.ts))
         /\ seen' = snapshot'

Unspy(target) ==
    /\ unspyBody("unspy", target)
    /\ UNCHANGED <<hasIO, queue, batch, handle>>
    /\ UNCHANGED section

\* the destroy handle of spy: () => unspy(elem)
Destroy ==
    /\ handle # NoHandle
    /\ unspyBody("destroy", handle.elem)
    /\ handle' = [handle EXCEPT !.invoked = TRUE]
    /\ UNCHANGED <<hasIO, queue, batch>>
    /\ UNCHANGED section

UnspyAll ==
    IF ~hasIO
    THEN /\ call' = Call("unspyAll", FALSE, "throw", 0, 0)
         /\ UNCHANGED <<hasIO, targets, activeTargets, lastActiveTarget,
                        observed, queue, batch, handle, registered, seen>>
         /\ UNCHANGED section
    ELSE /\ observed' = <<>>
         /\ activeTargets' = <<>>
         /\ lastActiveTarget' = Null
         /\ targets' = <<>>
         /\ registered' = <<>>
         /\ call' = Call("unspyAll", FALSE, "void", 1, Len(targets))
         /\ UNCHANGED <<hasIO, queue, batch, handle>>
         /\ UNCHANGED section
         /\ seen' = snapshot'

----------------------------------------------------------------------------
(* The IntersectionObserver                                                *)

\* One intersection update: the observer walks its observation targets in
\* the order they were observed and queues an entry for each target whose
\* intersection changed.  It does so while no script runs and nothing is
\* queued; unobserve and disconnect leave queued entries in place.
QueueEntries(changed, vis) ==
    LET ts == SelectSeq(observed, LAMBDA t : t \in changed) IN
    /\ hasIO
    /\ batch = <<>>
    /\ queue = <<>>
    /\ changed # {}
    /\ changed \subseteq Range(observed)
    /\ Cardinality(changed) <= MaxQueue
    /\ queue' = [i \in 1..Len(ts) |->
                    [target |-> ts[i], isIntersecting |-> vis[ts[i]]]]
    /\ UNCHANGED <<hasIO, targets, activeTargets, lastActiveTarget, observed,
                   batch, handle, registered, call, seen>>
    /\ UNCHANGED section

\* Variant: an entry that is not intersecting also clears lastActiveTarget
\* when it points at the entry's target.
applyEntryClearsLast(entry) ==
    /\ activeTargets' = IF entry.isIntersecting
                        THEN setTargetActive(activeTargets, entry.target)
                        ELSE setTargetUnactive(activeTargets, entry.target)
    /\ lastActiveTarget' = IF entry.isIntersecting THEN entry.target
                           ELSE clearLastActive(lastActiveTarget, entry.target)
    /\ call' = Call("entry", entry.isIntersecting, "void", 1, 0)

\* one iteration of the callback's loop: apply the entry, then reportUpdates
\* (Deliver and NextEntry record what the subscriber reads)
applyEntry(entry) ==
    /\ activeTargets' = IF entry.isIntersecting
                        THEN setTargetActive(activeTargets, entry.target)
                        ELSE setTargetUnactive(activeTargets, entry.target)
    /\ lastActiveTarget' = IF entry.isIntersecting THEN entry.target
                           ELSE lastActiveTarget
    /\ call' = Call("entry", entry.isIntersecting, "void", 1, 0)

\* The callback starts with the queued entries and applies the first one.
Deliver ==
    /\ batch = <<>>
    /\ queue # <<>>
    /\ applyEntry(Head(queue))
    /\ batch' = Tail(queue)
    /\ queue' = <<>>
    /\ UNCHANGED <<hasIO, targets, observed, handle, registered>>
    /\ UNCHANGED section
    /\ seen' = snapshot'

\* The callback applies the next entry of its batch.  Store calls taken
\* while batch is not empty are calls subscribers make from a notification.
NextEntry ==
    /\ batch # <<>>
    /\ applyEntry(Head(batch))
    /\ batch' = Tail(batch)
    /\ UNCHANGED <<hasIO, targets, observed, queue, handle, registered>>
    /\ UNCHANGED section
    /\ seen' = snapshot'

----------------------------------------------------------------------------
(* The section spy: a store whose spy is replaced by a checking wrapper    *)

\* sectionSpy.spy(target, label): rejects a target that resolves to nothing
\* or has no id, otherwise calls spy of the wrapped store and stamps the
\* label when that returned a destroy handle.
SectionSpy(target, label) ==
    LET elem == Resolve(target) IN
    IF elem = Null \/ IdOf(elem) = ""
    THEN /\ call' = Call("sectionSpy", FALSE, "empty", 0, 0)
         /\ UNCHANGED <<hasIO, targets, activeTargets, lastActiveTarget,
                        observed, queue, batch, handle, registered, seen>>
         /\ UNCHANGED section
    ELSE /\ spyBody(elem)
         /\ labels' = [labels EXCEPT ![elem] =
                           stampAfter(call'.ret, @,
                                      labelFor(IdChars(elem), label))]
         /\ UNCHANGED <<labelIn, labelOut>>

\* the label derivation of sectionSpy.spy run on labelIn
StampLabel ==
    /\ labelOut = NoLabel
    /\ labelOut' = labelFor(labelIn.id, labelIn.label)
    /\ UNCHANGED <<hasIO, targets, activeTargets, lastActiveTarget, observed,
                   queue, batch, handle, registered, call, seen, labels,
                   labelIn>>

----------------------------------------------------------------------------

Next ==
    \/ \E target \in Elems \cup Ids : Spy(target)
    \/ \E target \in Elems \cup Ids : Unspy(target)
    \/ Destroy
    \/ UnspyAll
    \/ \E changed \in SUBSET Elems : \E vis \in [changed -> BOOLEAN] :
           QueueEntries(changed, vis)
    \/ Deliver
    \/ NextEntry

Spec == Init /\ [][Next]_vars

\* the section spy: spy is reachable only through the wrapper
NextSection ==
    \/ \E target \in Elems \cup Ids : \E label \in LabelArgs :
           SectionSpy(target, label)
    \/ \E target \in Elems \cup Ids : Unspy(target)
    \/ Destroy
    \/ UnspyAll
    \/ \E changed \in SUBSET Elems : \E vis \in [changed -> BOOLEAN] :
           QueueEntries(changed, vis)
    \/ Deliver
    \/ NextEntry

SpecSection == Init /\ [][NextSection]_vars

\* the label derivation alone, over the bounded ids
NextLabel == StampLabel

SpecLabel == InitLabel /\ [][NextLabel]_vars

----------------------------------------------------------------------------
(* Vocabulary of the properties                                            *)

\* this step is the callback applying `entry`
Applies(entry) ==
    /\ call'.op = "entry"
    /\ \/ Deliver /\ Head(queue) = entry
       \/ NextEntry /\ Head(batch) = entry

Activation(x) == [target |-> x, isIntersecting |-> TRUE]

Deactivation(x) == [target |-> x, isIntersecting |-> FALSE]

\* this step is unspy(x) called directly or through the kept handle
Unregisters(x) ==
    \/ call'.op = "unspy" /\ Unspy(x)
    \/ call'.op = "destroy" /\ Destroy /\ handle.elem = x

\* a occurs before b in s
Before(s, a, b) ==
    \E i \in 1..Len(s) : \E j \in 1..Len(s) : i < j /\ s[i] = a /\ s[j] = b

NoDuplicates(s) == Cardinality(Range(s)) = Len(s)

\* the elements of s other than x are those of r, in the same order
SameOrderExcept(s, r, x) ==
    /\ Range(s) \ {x} = Range(r) \ {x}
    /\ \A a \in Range(s) \ {x} : \A b \in Range(s) \ {x} :
           Before(s, a, b) <=> Before(r, a, b)

----------------------------------------------------------------------------
(* C1: every member of ActiveSet is a member of RegistrationSet, in every  *)
(* reachable state, also when an entry is applied for a target that was    *)
(* unregistered after the entry was queued or earlier in the same batch.   *)
C1_ActiveSubsetOfRegistered ==
    Range(activeTargets) \subseteq Range(targets)

(* C2: lastActiveTarget is null or an element currently in targets.        *)
C2_LastActiveIsRegistered ==
    lastActiveTarget = Null \/ SetHas(targets, lastActiveTarget)

(* C3: isActive(x) is true exactly for the members of ActiveSet, false     *)
(* exactly for registered items that are not active, and null exactly for  *)
(* items that are not registered.                                          *)
C3_IsActiveThreeValued ==
    \A x \in Elems :
        /\ isActive(x) = "true" <=> x \in Range(activeTargets)
        /\ isActive(x) = "false" <=>
               x \in Range(targets) \ Range(activeTargets)
        /\ isActive(x) = "null" <=> x \notin Range(targets)

(* C4: without IntersectionObserver no call of spy, unspy or unspyAll      *)
(* throws, and no item ever becomes active.                                *)
C4_FallbackNeverThrows ==
    ~hasIO => call.ret # "throw" /\ activeTargets = <<>>

(* C5: an invocation of a destroy handle after its first invocation        *)
(* changes none of targets, activeTargets and lastActiveTarget, whatever   *)
(* happened between the invocations.                                       *)
C5_HandleActsOnce ==
    [][(Destroy /\ handle.invoked) =>
           UNCHANGED <<targets, activeTargets, lastActiveTarget>>]_vars

(* C6: an entry (x, isIntersecting) moves x to the last position of        *)
(* activeTargets, keeps the relative order of the other active items and   *)
(* sets lastActiveTarget to x, on every such entry.                        *)
C6_ActivationMovesToLast ==
    [][\A x \in Elems : Applies(Activation(x)) =>
           /\ activeTargets' # <<>>
           /\ activeTargets'[Len(activeTargets')] = x
           /\ NoDuplicates(activeTargets')
           /\ SameOrderExcept(activeTargets', activeTargets, x)
           /\ lastActiveTarget' = x]_vars

\* an activation was applied and left e1 behind e2, e1 being the latest
C6_Witness ==
    /\ call.op = "entry" /\ call.vis
    /\ targets = <<"e1", "e2">>
    /\ activeTargets = <<"e2", "e1">>
    /\ lastActiveTarget = "e1"

(* C7: an entry (x, not intersecting) removes x from activeTargets if      *)
(* present and leaves lastActiveTarget, targets and the order of the       *)
(* remaining active items unchanged.                                       *)
C7_DeactivationFrame ==
    [][\A x \in Elems : Applies(Deactivation(x)) =>
           /\ x \notin Range(activeTargets')
           /\ NoDuplicates(activeTargets')
           /\ SameOrderExcept(activeTargets', activeTargets, x)
           /\ UNCHANGED <<lastActiveTarget, targets>>]_vars

\* the end of register(A), register(B), activate(A), activate(B),
\* deactivate(A)
C7_Witness ==
    /\ call.op = "entry" /\ ~call.vis
    /\ targets = <<"e1", "e2">>
    /\ activeTargets = <<"e2">>
    /\ lastActiveTarget = "e2"
    /\ isActive("e1") = "false"
    /\ isActive("e2") = "true"

(* C8: unspy(x) of a registered item sets lastActiveTarget to null exactly *)
(* when it referenced x, and leaves it unchanged when it references        *)
(* another item.                                                           *)
C8_UnspyClearsOnlyOwnLast ==
    [][\A x \in Elems : (SetHas(targets, x) /\ Unregisters(x)) =>
           lastActiveTarget' = IF lastActiveTarget = x THEN Null
                               ELSE lastActiveTarget]_vars

\* an unspy removed an item while lastActiveTarget kept pointing at another
C8_Witness ==
    /\ call.op = "unspy" /\ call.removed = 1
    /\ lastActiveTarget # Null
    /\ SetHas(targets, lastActiveTarget)

(* C9: targets is duplicate-free and lists the items still registered in   *)
(* the order of their successful spy calls; its size is the number of      *)
(* successful spy calls minus removals.                                    *)
C9_OrderOfSuccessfulRegisters ==
    /\ NoDuplicates(targets)
    /\ targets = registered

tracked == <<targets, activeTargets, lastActiveTarget>>

\* the registered elements whose id is `id`
Matching(id) == {t \in Range(targets) : IdOf(t) = id}

(* C11: unspyAll succeeds from every state and leaves targets and          *)
(* activeTargets empty and lastActiveTarget null; right after it isActive  *)
(* is null for every item.                                                 *)
C11_UnspyAllClearsEverything ==
    call.op = "unspyAll" =>
        /\ call.ret = "void"
        /\ targets = <<>>
        /\ activeTargets = <<>>
        /\ lastActiveTarget = Null
        /\ \A x \in Elems : isActive(x) = "null"

(* C12: every state transition is notified exactly once, in the order the  *)
(* transitions are applied: one notification per successful spy, per       *)
(* unspy call that works on at least one element, per unspyAll and per     *)
(* applied entry; no transition goes without its notification.             *)
C12_OneNotificationPerTransition ==
    [][/\ tracked' # tracked => call'.notes = 1
       /\ (Deliver \/ NextEntry) => call'.notes = 1
       /\ UnspyAll => call'.notes = 1
       /\ \A t \in Elems \cup Ids :
              /\ (Spy(t) /\ spyElem(targets, t) # Null) => call'.notes = 1
              /\ (Unspy(t) /\ unspyElems(targets, t) # <<>>) =>
                     call'.notes = 1]_vars

(* C14: activeTarget is the most recently activated item among those in    *)
(* activeTargets (its last element), null exactly when activeTargets is    *)
(* empty, and activeId is that item's id.                                  *)
C14_ActiveTargetIsLatestActive ==
    /\ [](/\ activeTarget = Null <=> activeTargets = <<>>
          /\ activeTargets # <<>> =>
                 /\ activeTarget \in Range(activeTargets)
                 /\ \A y \in Range(activeTargets) \ {activeTarget} :
                        Before(activeTargets, y, activeTarget)
          /\ activeId = IF activeTargets = <<>> THEN Null
                        ELSE IdOf(activeTargets[Len(activeTargets)]))
    /\ [][\A x \in Elems : Applies(Activation(x)) => activeTarget' = x]_vars

\* two items are active and the one activated last has an id
C14_Witness ==
    /\ call.op = "entry" /\ call.vis
    /\ activeTargets = <<"e3", "e2">>
    /\ activeTarget = "e2"
    /\ activeId = "sec"

(* C15: unspy of an id removes every registered item with that id, with    *)
(* its activeTargets membership and lastActiveTarget reference, leaves the *)
(* other items untouched, and with no match changes nothing and notifies   *)
(* nobody.                                                                 *)
C15_UnspyByIdRemovesAllMatches ==
    [][\A id \in Ids : Unspy(id) =>
           /\ targets' = SelectSeq(targets, LAMBDA t : t \notin Matching(id))
           /\ activeTargets' =
                  SelectSeq(activeTargets, LAMBDA t : t \notin Matching(id))
           /\ lastActiveTarget' =
                  IF lastActiveTarget \in Matching(id) THEN Null
                  ELSE lastActiveTarget
           /\ Matching(id) = {} => call'.notes = 0]_vars

(* C16: unspy of an element that is not in targets does not throw and      *)
(* leaves targets, activeTargets and lastActiveTarget unchanged.           *)
C16_UnspyOfUnregisteredIsNoOp ==
    [][\A x \in Elems : (Unspy(x) /\ ~SetHas(targets, x)) =>
           /\ call'.ret # "throw"
           /\ tracked' = tracked]_vars

(* C19: when lastActiveTarget is not null and is in activeTargets, it is   *)
(* the last element of activeTargets, that is activeTarget.                *)
C19_LastActiveIsActiveTarget ==
    (lastActiveTarget # Null /\ SetHas(activeTargets, lastActiveTarget)) =>
        activeTarget = lastActiveTarget

\* a re-activation moved e1 behind e2 and e3
C19_Witness ==
    /\ call.op = "entry" /\ call.vis
    /\ targets = <<"e1", "e2", "e3">>
    /\ activeTargets = <<"e2", "e3", "e1">>
    /\ lastActiveTarget = "e1"

(* C20: right after a successful spy(x), x is the last element of targets  *)
(* and isActive(x) is false, also when x was registered, active and        *)
(* unregistered before.                                                    *)
C20_FreshlyRegisteredIsInactive ==
    [][\A x \in Elems : (Spy(x) /\ call'.ret = "handle") =>
           /\ targets' # <<>>
           /\ targets'[Len(targets')] = x
           /\ isActive(x)' = "false"]_vars

(* C13: a snapshot delivered to a subscriber is a point-in-time view: what *)
(* is read through the snapshot received at a notification still equals   *)
(* the state at that notification after any later spy, unspy, unspyAll or  *)
(* observer entry.                                                         *)
C13_SnapshotIsPointInTime ==
    [][snapshot' = seen]_vars

\* the id with every hyphen turned into a space and the first letter of
\* every hyphen-separated token in upper case
Words(id) ==
    [i \in 1..Len(id) |->
        IF id[i] = "-" THEN " "
        ELSE IF i = 1 THEN Upper(id[i])
        ELSE IF id[i - 1] = "-" THEN Upper(id[i])
        ELSE id[i]]

\* non-empty tokens separated by single hyphens
KebabCase(id) ==
    /\ id # <<>>
    /\ id[1] # "-"
    /\ id[Len(id)] # "-"
    /\ \A i \in 1..(Len(id) - 1) : ~(id[i] = "-" /\ id[i + 1] = "-")

(* C17: sectionSpy.spy calls spy of the wrapped store only for an item     *)
(* with a non-empty id; for an item without one the wrapped store is       *)
(* unchanged and no handle is returned; the label is stamped exactly when  *)
(* the wrapped spy returned a handle, so a rejected or duplicate           *)
(* registration never changes a label.                                     *)
C17_SectionSpyStampsOnSuccessOnly ==
    [][\A t \in Elems \cup Ids : \A l \in LabelArgs :
           SectionSpy(t, l) =>
               /\ (Resolve(t) = Null \/ IdOf(Resolve(t)) = "") =>
                      /\ tracked' = tracked
                      /\ UNCHANGED <<observed, handle, seen>>
                      /\ call'.ret = "empty"
                      /\ call'.notes = 0
               /\ call'.ret = "handle" =>
                      /\ labels'[Resolve(t)] # NoLabel
                      /\ labels'[Resolve(t)] =
                             IF l = Undefined THEN <<"S", "e", "c">> ELSE l
                      /\ \A e \in Elems \ {Resolve(t)} :
                             labels'[e] = labels[e]
               /\ call'.ret # "handle" => labels' = labels]_vars

\* a duplicate registration through the wrapper was rejected and left the
\* explicit label of e1 in place
C17_Witness ==
    /\ call.op = "spy" /\ call.ret = "empty"
    /\ SetHas(targets, "e1")
    /\ labels["e1"] = <<"L">>
    /\ labels["e2"] = NoLabel

(* C18 as stated: without an explicit label the stamped label is the id    *)
(* with each hyphen-separated token capitalised and each hyphen replaced   *)
(* by a single space; an explicit label is stamped unchanged.              *)
C18_LabelIsCapitalisedWords ==
    labelOut # NoLabel =>
        labelOut = IF labelIn.label = Undefined THEN Words(labelIn.id)
                   ELSE labelIn.label

(* C18 amended: the same for ids made of non-empty tokens separated by     *)
(* single hyphens.                                                         *)
C18_LabelOfKebabCaseId ==
    labelOut # NoLabel =>
        /\ labelIn.label # Undefined => labelOut = labelIn.label
        /\ (labelIn.label = Undefined /\ KebabCase(labelIn.id)) =>
               labelOut = Words(labelIn.id)

\* the label of the id a-b-a was derived
C18_Witness ==
    /\ labelIn = [id |-> <<"a", "-", "b", "-", "a">>, label |-> Undefined]
    /\ labelOut = <<"A", " ", "B", " ", "A">>

====
